---- MODULE Spec2Model ----
(***************************************************************************)
(* A model of vermin's single-unit analysis: the SourceVisitor collector   *)
(* (src/vermin/source_visitor.py) and the version combination primitive    *)
(* combine_versions it folds its facts with.                               *)
(*                                                                         *)
(* Encoding.  A version x.y is the integer 10*x + y (2.7 is 27, 3.0 is 30),*)
(* the "no constraint" slot is 0 as in the code, and the excluded marker   *)
(* (Python's None) is the value None below.  A dotted name such as         *)
(* "abc.ABC" is the sequence <<"abc", "ABC">> of its identifiers, so that  *)
(* joining and splitting on "." are sequence operations.                   *)
(***************************************************************************)
EXTENDS Integers, Sequences, FiniteSets, TLC

VARIABLES
  cv_args,   \* the operands <<a, b, c>> handed to combine_versions
  cv_done,   \* which combinations have been evaluated
  cv_out,    \* their outcomes
  self,      \* the SourceVisitor instance: its private fields
  stack,     \* the traversal's pending work, top first
  fuel,      \* how many more syntax-tree nodes the analysed unit may hold
  py,        \* the grammar the tree was parsed under: 2 or 3
  vocab,     \* the vocabulary the analysed unit is written in
  lax,       \* Config.lax_mode()
  visited,   \* the kinds of the nodes dispatched so far (history)
  last,      \* the node the latest step dispatched, NoNode if it dispatched none
  missed,    \* the nodes of the tree whose parent's handler never visits them
  due,       \* the (function, keyword) usages the calls visited so far hold
  pc,        \* "visit" during the traversal, "done" after minimum_versions
  result     \* the outcome of minimum_versions

cvars == <<cv_args, cv_done, cv_out>>
vars == <<cv_args, cv_done, cv_out, self, stack, fuel, py, vocab, lax, visited,
          last, missed, due, pc, result>>

\* ------------------------------------------------------------------------
\* Version pairs and the combination primitive
\* ------------------------------------------------------------------------

\* Python's None in a slot of a version pair: the major line is excluded.
None == -1

\* Slot values the operands are drawn from: excluded, no constraint, and two
\* concrete versions per major line.
V2Slots == {None, 0, 20, 27}
V3Slots == {None, 0, 30, 36}
Pairs == {<<x, y>> : x \in V2Slots, y \in V3Slots}

\* The outcome of a call: a returned pair, or the raised conflict error.
Ret(p) == [raised |-> FALSE, mins |-> p]
InvalidVersionException == [raised |-> TRUE, mins |-> <<>>]
NotRun == [raised |-> FALSE, mins |-> <<>>]

Max(x, y) == IF x >= y THEN x ELSE y

\* A slot that asserts a requirement: a version, neither "no constraint" nor
\* the excluded marker.
Concrete(v) == v # None /\ v # 0

\* Mutant of Conflict: only the first argument order is recognised.
ConflictOneWay(list1, list2) ==
  list1[1] = None /\ Concrete(list1[2]) /\ Concrete(list2[1]) /\ list2[2] = None

\* Rule 1: one side excludes a major line while the other side asserts a
\* concrete requirement on that line and excludes the opposite one, and the
\* first side in turn requires the line the other excludes.
Conflict(list1, list2) ==
  \/ list1[1] = None /\ Concrete(list1[2]) /\ Concrete(list2[1]) /\ list2[2] = None
  \/ Concrete(list1[1]) /\ list1[2] = None /\ list2[1] = None /\ Concrete(list2[2])

\* Mutants of CombineSlot: the first operand that constrains the slot wins;
\* the smaller concrete version wins; a plain maximum, in which the excluded
\* marker never dominates.
CombineSlotFirst(v1, v2) == IF v1 = 0 THEN v2 ELSE v1

CombineSlotMin(v1, v2) ==
  IF v1 = 0 THEN v2
  ELSE IF v2 = 0 THEN v1
  ELSE IF v1 = None \/ v2 = None THEN None
  ELSE IF v1 <= v2 THEN v1 ELSE v2

CombineSlotPlainMax(v1, v2) == Max(v1, v2)

\* Rules 2-4 for one slot.
CombineSlot(v1, v2) ==
  IF v1 = 0 THEN v2
  ELSE IF v2 = 0 THEN v1
  ELSE IF v1 = None \/ v2 = None THEN None
  ELSE Max(v1, v2)

combine_versions(list1, list2) ==
  IF Conflict(list1, list2)
  THEN InvalidVersionException
  ELSE Ret(<<CombineSlot(list1[1], list2[1]), CombineSlot(list1[2], list2[2])>>)

\* mins = combine_versions(mins, vers) inside a function body: a raised error
\* propagates, nothing after it runs.
Then(r, vers) == IF r.raised THEN r ELSE combine_versions(r.mins, vers)

\* ------------------------------------------------------------------------
\* The rule tables (vermin/rules.py, a read-only knowledge base)
\* ------------------------------------------------------------------------

\* String literals are sequences of characters, so that scanning one for
\* strftime directives or for "{}" is computed and not assumed.
Lit_EmptyField == <<"{", "}">>
Lit_IndexField == <<"{", "0", "}">>
Lit_EscapedBraces == <<"{", "{", "}", "}">>
Lit_Directives == <<"%", "G", " ", "%", "G", "%", "Y">>
Lit_Typecode == <<"q">>
Lit_Handler == <<"n", "a", "m", "e", "r", "e", "p", "l", "a", "c", "e">>
Lit_Encoding == <<"C", "P", "2", "7", "3">>
NoLit == <<>>

MOD_REQS ==
  (<<"abc">> :> <<26, 30>>) @@ (<<"copy_reg">> :> <<20, None>>) @@
  (<<"http">> :> <<None, 30>>)

MOD_MEM_REQS ==
  (<<"abc", "ABC">> :> <<None, 34>>) @@ (<<"next">> :> <<26, 30>>)

KWARGS_REQS == (<<<<"os", "open">>, "dir_fd">> :> <<None, 33>>)

STRFTIME_REQS == (<<"%", "G">> :> <<None, 36>>)

ARRAY_TYPECODE_REQS == (Lit_Typecode :> <<None, 33>>)

CODECS_ERROR_HANDLERS == (Lit_Handler :> <<None, 35>>)

\* function -> index of its positional "errors" argument (0-based, as in Python)
CODECS_ERRORS_INDICES == (<<"codecs", "lookup_error">> :> 0)

\* tuple of alias names -> required versions
CODECS_ENCODINGS == (<<<<"c", "p", "2", "7", "3">>>> :> <<None, 34>>)

\* function -> indices of its positional encoding arguments
CODECS_ENCODINGS_INDICES == (<<"codecs", "lookup">> :> <<0>>)

\* ------------------------------------------------------------------------
\* Helpers of the Python runtime and of vermin/utility.py
\* ------------------------------------------------------------------------

Range(s) == {s[i] : i \in DOMAIN s}
InList(x, s) == \E i \in DOMAIN s : s[i] = x

\* dict[key] = value
DictSet(d, key, value) == (key :> value) @@ d

\* dotted_name([a, b]): join the parts with "."; a part may itself be a list.
dotted_name(a, b) == a \o b

\* str.lower() on the characters the model's literals use.
LowerChar(c) ==
  CASE c = "C" -> "c"
    [] c = "P" -> "p"
    [] OTHER -> c
Lower(s) == [i \in DOMAIN s |-> LowerChar(s[i])]

\* sub in s, for strings.
Contains(s, sub) ==
  \E i \in 1..(Len(s) - Len(sub) + 1) : SubSeq(s, i, i + Len(sub) - 1) = sub

\* \w of a regular expression.
WordChars ==
  {"G", "Y", "C", "P", "q", "n", "a", "m", "e", "r", "p", "l", "c", "0", "2", "7", "3", "_"}

\* STRFTIME_DIRECTIVE_REGEX.findall(s) for the pattern (%\w): the matches from
\* left to right, not overlapping.
RECURSIVE FindDirectives(_, _)
FindDirectives(s, i) ==
  IF i + 1 > Len(s) THEN <<>>
  ELSE IF s[i] = "%" /\ s[i + 1] \in WordChars
       THEN <<SubSeq(s, i, i + 1)>> \o FindDirectives(s, i + 2)
       ELSE FindDirectives(s, i + 1)

\* ------------------------------------------------------------------------
\* The SourceVisitor instance
\* ------------------------------------------------------------------------

NoName == <<>>     \* Python's None where a name is expected
EmptyDict == <<>>

NewVisitor ==
  [modules |-> <<>>, members |-> <<>>,
   printv2 |-> FALSE, printv3 |-> FALSE, format27 |-> FALSE, longv2 |-> FALSE,
   bytesv3 |-> FALSE, fstrings |-> FALSE, bool_const |-> FALSE,
   annotations |-> FALSE, var_annotations |-> FALSE, coroutines |-> FALSE,
   function_name |-> NoName, kwargs |-> <<>>,
   strftime_directives |-> <<>>, codecs_error_handlers |-> <<>>,
   codecs_encodings |-> <<>>,
   import_mem_mod |-> EmptyDict, name_res |-> EmptyDict, user_defs |-> <<>>,
   array_typecodes |-> <<>>, module_as_name |-> EmptyDict]

\* Mutant of add_module: the user-defined check is missing.
add_module_unguarded(v, module) ==
  IF ~InList(module, v.modules)
  THEN [v EXCEPT !.modules = Append(@, module)]
  ELSE v

add_module(v, module) ==
  IF InList(module, v.user_defs) THEN v
  ELSE IF ~InList(module, v.modules)
       THEN [v EXCEPT !.modules = Append(@, module)]
       ELSE v

add_member(v, member) ==
  IF InList(member, v.user_defs) THEN v
  ELSE IF member \in DOMAIN MOD_MEM_REQS
       THEN [v EXCEPT !.members = Append(@, member)]
       ELSE v

add_kwargs(v, function, keyword) ==
  IF InList(function, v.user_defs) THEN v
  ELSE IF <<function, keyword>> \in DOMAIN KWARGS_REQS
          /\ ~InList(<<function, keyword>>, v.kwargs)
       THEN [v EXCEPT !.kwargs = Append(@, <<function, keyword>>)]
       ELSE v

add_strftime_directive(v, group) ==
  [v EXCEPT !.strftime_directives = Append(@, group)]

\* hasattr(node, "s"): the node is a string literal.
HasS(node) == node.kind = "Str"

\* The string values of the keywords of `keywords` whose name is in `names`,
\* in order.
RECURSIVE KeywordValues(_, _)
KeywordValues(keywords, names) ==
  IF keywords = <<>> THEN <<>>
  ELSE (IF Head(keywords).name \in names /\ Head(keywords).sub = "Str"
        THEN <<Head(keywords).s>> ELSE <<>>)
       \o KeywordValues(Tail(keywords), names)

\* The string value of the positional argument at (0-based) index idx, if any.
ArgValue(args, idx) ==
  IF idx >= 0 /\ idx < Len(args) /\ HasS(args[idx + 1])
  THEN <<args[idx + 1].s>> ELSE <<>>

add_codecs_error_handler(v, func, args, keywords) ==
  IF func \in DOMAIN CODECS_ERRORS_INDICES
  THEN [v EXCEPT !.codecs_error_handlers =
          @ \o ArgValue(args, CODECS_ERRORS_INDICES[func])
            \o KeywordValues(keywords, {<<"errors">>})]
  ELSE v

RECURSIVE EncodingsAt(_, _, _)
EncodingsAt(indices, args, keywords) ==
  IF indices = <<>> THEN <<>>
  ELSE ArgValue(args, Head(indices))
       \o KeywordValues(keywords,
            {<<"encoding">>, <<"data_encoding">>, <<"file_encoding">>})
       \o EncodingsAt(Tail(indices), args, keywords)

add_codecs_encoding(v, func, args, keywords) ==
  IF func \in DOMAIN CODECS_ENCODINGS_INDICES
  THEN [v EXCEPT !.codecs_encodings =
          @ \o EncodingsAt(CODECS_ENCODINGS_INDICES[func], args, keywords)]
  ELSE v

check_codecs_function(v, func, args, keywords) ==
  add_codecs_encoding(add_codecs_error_handler(v, func, args, keywords),
                      func, args, keywords)

add_user_def(v, name) ==
  LET uds == IF ~InList(name, v.user_defs)
             THEN Append(v.user_defs, name) ELSE v.user_defs
      Keep(x) == ~InList(x, uds)
  IN [v EXCEPT !.user_defs = uds,
               !.modules = SelectSeq(@, Keep),
               !.members = SelectSeq(@, Keep)]

\* A Name target or an ast.arg / keyword: the name it introduces.
add_user_def_node(v, node) ==
  IF node.kind = "Name" THEN add_user_def(v, node.name)
  ELSE IF node.kind \in {"arg", "keyword"} THEN add_user_def(v, node.name)
  ELSE v

add_name_res(v, source, target) ==
  [v EXCEPT !.name_res = DictSet(@, source, target)]

add_array_typecode(v, typecode) ==
  IF ~InList(typecode, v.array_typecodes)
  THEN [v EXCEPT !.array_typecodes = Append(@, typecode)]
  ELSE v

\* ------------------------------------------------------------------------
\* Syntax-tree nodes
\* ------------------------------------------------------------------------

\* A node as its handler sees it: its kind and the fields the visitor reads.
\*   name    Import: the imported path; ImportFrom: node.module (NoName for a
\*           relative import); Name: <<id>>; Attribute: the path that
\*           __get_attribute_name walks out of it; Call: the callee's <<id>> or
\*           attribute path; keyword: <<arg>>; definitions: <<name>>;
\*           assignments: the target <<id>> (NoName when it is no Name)
\*   sub     Call: the kind of node.func; assignments: the kind of node.value;
\*           keyword: the kind of its value; function definitions: where an
\*           annotation sits; JoinedStr: the kind of its values
\*   s       the value of a string literal (Str, a keyword's value, the
\*           receiver of an attribute callee)
\*   member  ImportFrom: the imported name, "*" for a star import
\*   asname  imports: the alias, "" for none
\*   val     assignments: the qualified name of the right-hand side; keyword:
\*           the <<id>> of a value that is a Name
Node(kind) ==
  [kind |-> kind, name |-> NoName, sub |-> "", s |-> NoLit,
   member |-> "", asname |-> "", val |-> NoName]

NameNode(id) == [Node("Name") EXCEPT !.name = <<id>>]
StrNode(lit) == [Node("Str") EXCEPT !.s = lit]
AttributeNode(path) == [Node("Attribute") EXCEPT !.name = path]
CallNode(sub, path, lit) == [Node("Call") EXCEPT !.sub = sub, !.name = path, !.s = lit]
KeywordNode(arg, sub, lit) ==
  [Node("keyword") EXCEPT !.name = <<arg>>, !.sub = sub, !.s = lit]

\* No node: the step dispatched nothing.
NoNode == Node("")

\* The children of n that its handler does not pass on: visit_keyword,
\* visit_Attribute, visit_JoinedStr and visit_ImportFrom never call
\* generic_visit, so a keyword's value, an attribute's receiver, the
\* expressions embedded in an f-string and the aliases of a from-import are
\* nodes of the tree that are not dispatched.
Unvisited(n) ==
  CASE n.kind = "keyword" ->
         {IF n.sub = "Str" THEN StrNode(n.s)
          ELSE IF n.sub = "Name" THEN NameNode(n.val[1]) ELSE Node(n.sub)}
    [] n.kind = "Attribute" /\ n.sub = "StrAttribute" -> {StrNode(n.s)}
    [] n.kind = "Attribute" /\ n.sub # "StrAttribute" ->
         {IF Len(n.name) >= 2 THEN NameNode(n.name[1]) ELSE Node("Other")}
    [] n.kind = "JoinedStr" -> {Node(n.sub)}
    [] n.kind = "ImportFrom" -> {Node("alias")}
    [] OTHER -> {}

\* Frames of the traversal: a node to dispatch, a list of children still to be
\* produced by the tree, the rest of a handler after its generic_visit.
Visit(n) == [op |-> "visit", node |-> n]
Kids(family) == [op |-> "kids", node |-> Node(family)]
Post(n) == [op |-> "post", node |-> n]

\* The analysed units: the trees of at most MaxNodes drawn nodes over one of
\* four vocabularies of node shapes.  The identifiers are those of the rule
\* tables above: "abc" is a module, "next" a builtin member, "abc.ABC" a
\* member of a module.
MaxNodes == 3

Vocabularies == {"collect", "calls", "flags", "control"}

ImportNode(m, a) == [Node("Import") EXCEPT !.name = m, !.asname = a]
ImportFromNode(m, x, a) ==
  [Node("ImportFrom") EXCEPT !.name = m, !.member = x, !.asname = a]
AssignNode(kind, target, sub, val) ==
  [Node(kind) EXCEPT !.name = target, !.sub = sub, !.val = val]
DefNode(kind, f, ann) == [Node(kind) EXCEPT !.name = f, !.sub = ann]

\* Imports, definitions, assignments and references: what the shadowing
\* tracker and the Modules and Members sets see.
CollectStmts(p) ==
  {ImportNode(<<"abc">>, ""),
   ImportFromNode(<<"abc">>, "ABC", ""), ImportFromNode(<<"abc">>, "*", ""),
   ImportFromNode(NoName, "abc", ""),
   DefNode("FunctionDef", <<"abc">>, "plain"), DefNode("FunctionDef", <<"next">>, "plain"),
   DefNode("ClassDef", <<"abc">>, ""), DefNode("ClassDef", <<"next">>, ""),
   AssignNode("Assign", <<"abc">>, "Other", NoName),
   AssignNode("Assign", NoName, "Other", NoName),
   AssignNode("Assign", <<"next">>, "Attribute", <<"abc">>),
   AssignNode("AugAssign", <<"next">>, "CallName", <<"next">>)}

CollectExprs(p) ==
  {NameNode("next"), CallNode("Name", <<"next">>, NoLit),
   AttributeNode(<<"abc", "ABC">>), AttributeNode(<<"next", "ABC">>)}

\* Calls with their literal arguments and keywords.
CallsStmts(p) ==
  {ImportNode(<<"codecs">>, "next"), ImportFromNode(<<"os">>, "open", ""),
   ImportFromNode(<<"array">>, "array", "next"),
   AssignNode("Assign", <<"next">>, "CallAttribute", <<"os">>)}

CallsExprs(p) ==
  {CallNode("Name", <<id>>, NoLit) : id \in {"next", "open", "array"}}
  \cup {CallNode("Attribute", q, NoLit) :
          q \in {<<"next", "strftime">>, <<"codecs", "lookup">>,
                 <<"codecs", "lookup_error">>, <<"os", "open">>, <<"next", "open">>}}
  \cup {CallNode("StrAttribute", <<"format">>, l) :
          l \in {Lit_EmptyField, Lit_IndexField, Lit_EscapedBraces}}
  \cup {CallNode("Attribute", <<"next", "format">>, NoLit)}
  \cup {CallNode("Other", NoName, NoLit), StrNode(Lit_EmptyField)}

\* The nodes that raise a feature flag, and the modules the resolver's
\* scenarios import.
FlagsStmts(p) ==
  {ImportNode(<<"abc">>, ""), ImportNode(<<"copy_reg">>, ""), ImportNode(<<"http">>, ""),
   ImportFromNode(<<"abc">>, "ABC", "")}
  \cup (IF p = 3
        THEN {AssignNode("AnnAssign", <<"next">>, "Other", NoName),
              DefNode("AsyncFunctionDef", <<"next">>, "plain"),
              DefNode("FunctionDef", <<"next">>, "returns"),
              DefNode("FunctionDef", <<"next">>, "arg"),
              DefNode("FunctionDef", <<"next">>, "kwonly")}
        ELSE {Node("Print")})

FlagsExprs(p) ==
  {NameNode("long"), Node("Num"), CallNode("Name", <<"print">>, NoLit),
   CallNode("StrAttribute", <<"format">>, Lit_EmptyField)}
  \cup (IF p = 3
        THEN {Node("Bytes"), [Node("Constant") EXCEPT !.sub = "bytes"],
              [Node("Constant") EXCEPT !.sub = "str"],
              [Node("JoinedStr") EXCEPT !.sub = "FormattedValue"],
              [Node("NameConstant") EXCEPT !.sub = "True"],
              [Node("NameConstant") EXCEPT !.sub = "None"],
              Node("Await"), Node("NamedExpr")}
        ELSE {})

\* The constructs lax mode skips, around a few facts.
ControlStmts(p) ==
  {Node(k) : k \in {"If", "For", "While"} \cup (IF p = 3 THEN {"Try"} ELSE {"TryExcept"})}
  \cup {ImportNode(<<"abc">>, ""), DefNode("ClassDef", <<"abc">>, ""), Node("Pass")}

ControlExprs(p) ==
  {Node("IfExp"), Node("BoolOp"), NameNode("long"), CallNode("Name", <<"next">>, NoLit)}

StmtShapes(voc, p) ==
  CASE voc = "collect" -> CollectStmts(p)
    [] voc = "calls" -> CallsStmts(p)
    [] voc = "flags" -> FlagsStmts(p)
    [] OTHER -> ControlStmts(p)

ExprShapes(voc, p) ==
  CASE voc = "collect" -> CollectExprs(p)
    [] voc = "calls" -> CallsExprs(p)
    [] voc = "flags" -> FlagsExprs(p)
    [] OTHER -> ControlExprs(p)

\* The children a list field may hold: a body holds statements, and an
\* expression statement (ast.Expr, which has no handler) passes the visit on
\* to its expression.
Shapes(family, voc, p) ==
  IF family = "stmt" THEN StmtShapes(voc, p) \cup ExprShapes(voc, p)
  ELSE ExprShapes(voc, p)

\* The arguments and the keywords a call is drawn with.
ArgLists(voc) ==
  IF voc = "calls"
  THEN {<<>>} \cup {<<a>> : a \in {StrNode(Lit_Directives), StrNode(Lit_Typecode),
                                   StrNode(Lit_Encoding), StrNode(Lit_Handler),
                                   CallNode("StrAttribute", <<"format">>, Lit_EmptyField)}}
  ELSE {<<>>}

KwLists(voc) ==
  IF voc = "calls"
  THEN {<<>>, <<[KeywordNode("dir_fd", "Name", NoLit) EXCEPT !.val = <<"long">>]>>,
        <<KeywordNode("encoding", "Str", Lit_Encoding)>>,
        <<KeywordNode("errors", "Str", Lit_Handler)>>}
  ELSE {<<>>}

\* ------------------------------------------------------------------------
\* Specification SpecCombine: combine_versions applied to drawn operands
\* ------------------------------------------------------------------------

Labels == {"ab", "ba", "bc", "ab_c", "a_bc"}

InitCombine ==
  /\ cv_args \in Pairs \X Pairs \X Pairs
  /\ cv_done = {}
  /\ cv_out = [l \in Labels |-> NotRun]
  /\ self = NewVisitor
  /\ stack = <<>>
  /\ fuel = 0
  /\ py = 3
  /\ vocab = "collect"
  /\ lax = FALSE
  /\ visited = {}
  /\ last = NoNode
  /\ missed = {}
  /\ due = {}
  /\ pc = "combine"
  /\ result = NotRun

Eval(l, r) ==
  /\ l \notin cv_done
  /\ cv_done' = cv_done \cup {l}
  /\ cv_out' = [cv_out EXCEPT ![l] = r]
  /\ UNCHANGED <<cv_args, self, stack, fuel, py, vocab, lax, visited,
                 last, missed, due, pc, result>>

CombineAB == pc = "combine" /\ Eval("ab", combine_versions(cv_args[1], cv_args[2]))
CombineBA == pc = "combine" /\ Eval("ba", combine_versions(cv_args[2], cv_args[1]))
CombineBC == pc = "combine" /\ Eval("bc", combine_versions(cv_args[2], cv_args[3]))

\* combine(combine(a, b), c): the outer call runs only if the inner returned.
CombineAB_C == "ab" \in cv_done /\ Eval("ab_c", Then(cv_out["ab"], cv_args[3]))

\* combine(a, combine(b, c)).
CombineA_BC ==
  /\ "bc" \in cv_done
  /\ Eval("a_bc", IF cv_out["bc"].raised THEN cv_out["bc"]
                  ELSE combine_versions(cv_args[1], cv_out["bc"].mins))

NextCombine == CombineAB \/ CombineBA \/ CombineBC \/ CombineAB_C \/ CombineA_BC

SpecCombine == InitCombine /\ [][NextCombine]_vars

\* ------------------------------------------------------------------------
\* The traversal: one action per handler of SourceVisitor
\* ------------------------------------------------------------------------

Init ==
  /\ self = NewVisitor
  /\ stack = <<Kids("stmt")>>      \* the body of the Module node
  /\ fuel = MaxNodes
  /\ py \in {2, 3}
  /\ vocab \in Vocabularies
  /\ lax \in BOOLEAN
  /\ visited = {}
  /\ last = NoNode
  /\ missed = {}
  /\ due = {}
  /\ pc = "visit"
  /\ result = NotRun
  /\ cv_args = <<<<0, 0>>, <<0, 0>>, <<0, 0>>>>
  /\ cv_done = {}
  /\ cv_out = [l \in Labels |-> NotRun]

At(op) == pc = "visit" /\ stack # <<>> /\ Head(stack).op = op
Top == Head(stack).node

\* The node dispatched next: the one the enclosing handler left to be visited,
\* or, in a list of children, whichever child the tree holds next.
Cur ==
  IF At("visit") THEN {Top}
  ELSE IF At("kids") /\ fuel > 0 THEN Shapes(Top.kind, vocab, py)
  ELSE {}

\* What is left to do once the node is taken, and what taking it costs.
After == IF At("visit") THEN Tail(stack) ELSE stack
Drawn == IF At("visit") THEN 0 ELSE 1

\* A handler's step: its effect v on the visitor, the frames it leaves to be
\* visited, and the nodes it drew beyond its own.
HandleCall(n, v, frames, cost, usages) ==
  /\ self' = v
  /\ stack' = frames \o After
  /\ fuel' = fuel - Drawn - cost
  /\ visited' = visited \cup {n.kind}
  /\ last' = n
  /\ missed' = missed \cup Unvisited(n)
  /\ due' = due \cup usages
  /\ UNCHANGED <<py, vocab, lax, pc, result, cv_args, cv_done, cv_out>>

Handle(n, v, frames, cost) == HandleCall(n, v, frames, cost, {})

\* The rest of a handler, after its generic_visit has returned.
Resume(v) ==
  /\ self' = v
  /\ stack' = Tail(stack)
  /\ last' = NoNode
  /\ UNCHANGED <<fuel, visited, missed, due, py, vocab, lax, pc, result,
                 cv_args, cv_done, cv_out>>

\* A list of children ends.
EndChildren ==
  /\ At("kids")
  /\ stack' = Tail(stack)
  /\ last' = NoNode
  /\ UNCHANGED <<self, fuel, py, vocab, lax, visited, missed, due, pc, result,
                 cv_args, cv_done, cv_out>>

\* generic_visit of a node whose kind has no handler: its children are
\* visited in turn (ast.NodeVisitor.generic_visit).
generic_visit ==
  \E n \in Cur :
    /\ n.kind \in {"NamedExpr", "Other"}
    /\ Handle(n, self, <<Kids("expr")>>, 0)

\* Handlers that are `pass`, and leaves without a handler.
visit_Pass ==
  \E n \in Cur :
    /\ n.kind \in {"Pass", "Num", "Str"}
    /\ Handle(n, self, <<>>, 0)

visit_Import ==
  \E n \in Cur :
    /\ n.kind = "Import"
    /\ LET v1 == add_member(add_module(self, n.name), n.name)
           v2 == IF n.asname # ""
                 THEN [v1 EXCEPT !.module_as_name = DictSet(@, <<n.asname>>, n.name)]
                 ELSE v1
       IN Handle(n, v2, <<>>, 0)

visit_ImportFrom ==
  \E n \in Cur :
    /\ n.kind = "ImportFrom"
    /\ LET comb_name == dotted_name(n.name, <<n.member>>)
           v1 == add_module(self, n.name)
           v2 == IF n.member = "*" THEN v1
                 ELSE add_member(
                        add_member(
                          add_module([v1 EXCEPT !.import_mem_mod =
                                        DictSet(@, <<n.member>>, n.name)],
                                     comb_name),
                          comb_name),
                        <<n.member>>)
           v3 == IF n.asname # ""
                 THEN [v2 EXCEPT !.module_as_name = DictSet(@, <<n.asname>>, comb_name)]
                 ELSE v2
       IN Handle(n, IF n.name = NoName THEN self ELSE v3, <<>>, 0)

visit_Name ==
  \E n \in Cur :
    /\ n.kind = "Name"
    /\ Handle(n, IF n.name = <<"long">> THEN [self EXCEPT !.longv2 = TRUE] ELSE self,
              <<>>, 0)

visit_Print ==
  \E n \in Cur :
    /\ n.kind = "Print"
    /\ Handle(n, [self EXCEPT !.printv2 = TRUE], <<Kids("expr")>>, 0)

\* for arg in node.args: if it is a string literal, add its typecode.
RECURSIVE AddTypecodes(_, _)
AddTypecodes(v, args) ==
  IF args = <<>> THEN v
  ELSE AddTypecodes(IF HasS(Head(args)) THEN add_array_typecode(v, Head(args).s) ELSE v,
                    Tail(args))

RECURSIVE AddDirectiveList(_, _)
AddDirectiveList(v, ds) ==
  IF ds = <<>> THEN v
  ELSE AddDirectiveList(add_strftime_directive(v, Head(ds)), Tail(ds))

\* for arg in node.args: if it has a string value, add every directive in it.
RECURSIVE AddDirectives(_, _)
AddDirectives(v, args) ==
  IF args = <<>> THEN v
  ELSE AddDirectives(IF HasS(Head(args))
                     THEN AddDirectiveList(v, FindDirectives(Head(args).s, 1))
                     ELSE v,
                     Tail(args))

\* visit_Call up to its generic_visit, for a callee that is a Name.
CallByName(v, n, args, keywords) ==
  LET id == n.name
      v1 == add_member([v EXCEPT !.function_name = id], id)
      v2 == IF id \in DOMAIN v1.import_mem_mod
            THEN check_codecs_function(v1, dotted_name(v1.import_mem_mod[id], id),
                                       args, keywords)
            ELSE IF id \in DOMAIN v1.module_as_name
                 THEN check_codecs_function(v1, v1.module_as_name[id], args, keywords)
                 ELSE v1
  IN IF id = <<"print">> THEN [v2 EXCEPT !.printv3 = TRUE]
     ELSE IF \/ id = <<"array">>
             \/ (id \in DOMAIN v2.module_as_name
                 /\ v2.module_as_name[id] = <<"array", "array">>)
          THEN AddTypecodes(v2, args)
          ELSE v2

\* visit_Call up to its generic_visit, for a callee that is an Attribute.
CallByAttribute(v, n, args, keywords) ==
  LET attr == n.name[Len(n.name)]
      v1 == IF attr = "format" /\ n.sub = "StrAttribute" /\ Contains(n.s, Lit_EmptyField)
            THEN [v EXCEPT !.format27 = TRUE]
            ELSE IF attr \in {"strftime", "strptime"}
                 THEN AddDirectives(v, args)
                 ELSE v
  IN check_codecs_function([v1 EXCEPT !.function_name = n.name], n.name, args, keywords)

\* The node of a call's callee.
FuncNode(n) ==
  IF n.sub = "Name" THEN NameNode(n.name[1])
  ELSE IF n.sub = "Other" THEN Node("Other")
  ELSE [AttributeNode(n.name) EXCEPT !.sub = n.sub, !.s = n.s]

VisitAll(nodes) == [i \in DOMAIN nodes |-> Visit(nodes[i])]

\* visit_keyword under function name fn.
KeywordVisited(v, fn, arg) ==
  LET exp_name == fn
      root == <<exp_name[1]>>
      v1 == add_kwargs(v, fn, arg)
      v2 == IF fn \in DOMAIN v1.import_mem_mod
            THEN add_kwargs(v1, dotted_name(v1.import_mem_mod[fn], fn), arg)
            ELSE v1
      v3 == IF root \in DOMAIN v2.import_mem_mod
            THEN add_kwargs(v2, dotted_name(v2.import_mem_mod[root], fn), arg)
            ELSE v2
      res == v3.name_res[root]
  IN IF root \in DOMAIN v3.name_res
     THEN IF res \in DOMAIN v3.import_mem_mod
          THEN add_kwargs(v3, dotted_name(v3.import_mem_mod[res],
                                          dotted_name(res, Tail(exp_name))), arg)
          ELSE add_kwargs(v3, dotted_name(res, Tail(exp_name)), arg)
     ELSE v3

\* The usages call n holds: what visit_keyword registers for each of its
\* keywords when it runs under the call's own callee.
Usages(v, n, keywords) ==
  IF n.sub \in {"Name", "Attribute", "StrAttribute"}
  THEN UNION {Range(KeywordVisited([v EXCEPT !.kwargs = <<>>], n.name,
                                   keywords[i].name[1]).kwargs) :
                i \in DOMAIN keywords}
  ELSE {}

\* generic_visit meets a call's fields in the order func, args, keywords.
visit_Call ==
  \E n \in Cur :
    /\ n.kind = "Call"
    /\ \E args \in ArgLists(vocab), keywords \in KwLists(vocab) :
         /\ Len(args) + Len(keywords) <= fuel - Drawn
         /\ LET v == IF n.sub = "Name" THEN CallByName(self, n, args, keywords)
                     ELSE IF n.sub \in {"Attribute", "StrAttribute"}
                          THEN CallByAttribute(self, n, args, keywords)
                          ELSE self
            IN HandleCall(n, v,
                          <<Visit(FuncNode(n))>> \o VisitAll(args) \o VisitAll(keywords)
                            \o <<Post(n)>>,
                          Len(args) + Len(keywords),
                          Usages(v, n, keywords))

\* visit_Call after its generic_visit.
post_Call ==
  /\ At("post") /\ Top.kind = "Call"
  /\ Resume([self EXCEPT !.function_name = NoName])

\* mod.endswith(root) for dotted names: the last identifier of mod is root.
EndsWith(mod, root) == mod # <<>> /\ mod[Len(mod)] = root

\* for mod in self.__modules: the list may grow while it is walked.
RECURSIVE AttributeModules(_, _, _)
AttributeModules(v, full_name, i) ==
  IF i > Len(v.modules) THEN v
  ELSE LET mod == v.modules[i]
       IN AttributeModules(
            IF <<full_name[1]>> = mod THEN add_module(v, full_name)
            ELSE IF EndsWith(mod, full_name[1])
                 THEN add_member(v, dotted_name(mod, Tail(full_name)))
                 ELSE v,
            full_name, i + 1)

AttributeVisited(v, full_name) ==
  LET v1 == add_member(AttributeModules(v, full_name, 1), full_name)
      root == <<full_name[1]>>
      res == v1.name_res[root]
  IN IF root \in DOMAIN v1.name_res
     THEN IF res \in DOMAIN v1.import_mem_mod
          THEN add_member(v1, dotted_name(v1.import_mem_mod[res],
                                          dotted_name(res, Tail(full_name))))
          ELSE add_member(v1, dotted_name(res, Tail(full_name)))
     ELSE v1

visit_Attribute ==
  \E n \in Cur :
    /\ n.kind = "Attribute"
    /\ Handle(n, IF Len(n.name) > 0 THEN AttributeVisited(self, n.name) ELSE self,
              <<>>, 0)

visit_keyword ==
  \E n \in Cur :
    /\ n.kind = "keyword"
    /\ Handle(n, IF self.function_name # NoName
                 THEN KeywordVisited(self, self.function_name, n.name[1])
                 ELSE self,
              <<>>, 0)

visit_Bytes ==
  \E n \in Cur :
    /\ n.kind = "Bytes"
    /\ Handle(n, [self EXCEPT !.bytesv3 = TRUE], <<>>, 0)

visit_Constant ==
  \E n \in Cur :
    /\ n.kind = "Constant"
    /\ Handle(n, IF n.sub = "bytes" THEN [self EXCEPT !.bytesv3 = TRUE] ELSE self,
              <<>>, 0)

visit_JoinedStr ==
  \E n \in Cur :
    /\ n.kind = "JoinedStr"
    /\ Handle(n, [self EXCEPT !.fstrings = TRUE], <<>>, 0)

visit_NameConstant ==
  \E n \in Cur :
    /\ n.kind = "NameConstant"
    /\ Handle(n, IF n.sub \in {"True", "False"} THEN [self EXCEPT !.bool_const = TRUE]
                 ELSE self,
              <<>>, 0)

\* __add_name_res_assign_node: a right-hand side that is a call or an attribute
\* path names the target.
add_name_res_assign_node(v, n) ==
  IF n.sub \in {"CallName", "CallAttribute", "Attribute"} /\ n.name # NoName
  THEN add_name_res(v, n.name, n.val)
  ELSE v

\* The children of an assignment, as generic_visit meets them: the target,
\* then the value.
AssignChildren(n) ==
  (IF n.name # NoName THEN <<Visit(NameNode(n.name[1]))>> ELSE <<>>)
  \o (CASE n.sub = "CallName" -> <<Visit(CallNode("Name", n.val, NoLit))>>
        [] n.sub = "CallAttribute" -> <<Visit(CallNode("Attribute", n.val, NoLit))>>
        [] n.sub = "Attribute" -> <<Visit(AttributeNode(n.val))>>
        [] OTHER -> <<Kids("expr")>>)

AssignTarget(n) == IF n.name # NoName THEN NameNode(n.name[1]) ELSE Node("Other")

AssignVisited(v, n) ==
  add_name_res_assign_node(add_user_def_node(v, AssignTarget(n)), n)

visit_Assign ==
  \E n \in Cur :
    /\ n.kind = "Assign"
    /\ Handle(n, AssignVisited(self, n), AssignChildren(n), 0)

visit_AugAssign ==
  \E n \in Cur :
    /\ n.kind = "AugAssign"
    /\ Handle(n, AssignVisited(self, n), AssignChildren(n), 0)

visit_AnnAssign ==
  \E n \in Cur :
    /\ n.kind = "AnnAssign"
    /\ Handle(n, AssignVisited(self, n), AssignChildren(n) \o <<Post(n)>>, 0)

post_AnnAssign ==
  /\ At("post") /\ Top.kind = "AnnAssign"
  /\ Resume([self EXCEPT !.annotations = TRUE, !.var_annotations = TRUE])

\* Mutant of handle_FunctionDef: the name is not recorded before the body.
handle_FunctionDef_late(v, n) == v

\* __handle_FunctionDef up to its generic_visit.
handle_FunctionDef(v, n) == add_user_def(v, n.name)

visit_FunctionDef ==
  \E n \in Cur :
    /\ n.kind = "FunctionDef"
    /\ Handle(n, handle_FunctionDef(self, n), <<Kids("stmt"), Post(n)>>, 0)

visit_AsyncFunctionDef ==
  \E n \in Cur :
    /\ n.kind = "AsyncFunctionDef"
    /\ Handle(n, handle_FunctionDef([self EXCEPT !.coroutines = TRUE], n),
              <<Kids("stmt"), Post(n)>>, 0)

\* __handle_FunctionDef after its generic_visit: the return annotation, then
\* the annotations of node.args.args.
post_FunctionDef ==
  /\ At("post") /\ Top.kind \in {"FunctionDef", "AsyncFunctionDef"}
  /\ Resume(IF Top.sub \in {"returns", "arg"}
            THEN [self EXCEPT !.annotations = TRUE] ELSE self)

visit_Await ==
  \E n \in Cur :
    /\ n.kind = "Await"
    /\ Handle(n, [self EXCEPT !.coroutines = TRUE], <<Kids("expr")>>, 0)

visit_ClassDef ==
  \E n \in Cur :
    /\ n.kind = "ClassDef"
    /\ Handle(n, add_user_def(self, n.name), <<Kids("stmt")>>, 0)

\* Mutant of LaxSkip: the construct is traversed whatever the mode.
LaxSkipNever(n, family) == Handle(n, self, <<Kids(family)>>, 0)

\* Lax mode skips conditional blocks if enabled.
LaxSkip(n, family) ==
  Handle(n, self, IF ~lax THEN <<Kids(family)>> ELSE <<>>, 0)

visit_If == \E n \in Cur : n.kind = "If" /\ LaxSkip(n, "stmt")
visit_IfExp == \E n \in Cur : n.kind = "IfExp" /\ LaxSkip(n, "expr")
visit_For == \E n \in Cur : n.kind = "For" /\ LaxSkip(n, "stmt")
visit_While == \E n \in Cur : n.kind = "While" /\ LaxSkip(n, "stmt")
visit_Try == \E n \in Cur : n.kind = "Try" /\ LaxSkip(n, "stmt")
visit_TryExcept == \E n \in Cur : n.kind = "TryExcept" /\ LaxSkip(n, "stmt")
visit_BoolOp == \E n \in Cur : n.kind = "BoolOp" /\ LaxSkip(n, "expr")

\* ------------------------------------------------------------------------
\* minimum_versions
\* ------------------------------------------------------------------------

\* mins[i] = x on the list that is being built (i is 1-based here).
SetItem(r, i, x) == IF r.raised THEN r ELSE Ret([r.mins EXCEPT ![i] = x])

\* if flag: mins = combine_versions(mins, vers)
Flag(r, flag, vers) == IF flag THEN Then(r, vers) ELSE r

\* for x in facts: if x in table: mins = combine_versions(mins, table[x])
RECURSIVE FoldFacts(_, _, _)
FoldFacts(r, facts, table) ==
  IF facts = <<>> THEN r
  ELSE FoldFacts(IF Head(facts) \in DOMAIN table THEN Then(r, table[Head(facts)]) ELSE r,
                 Tail(facts), table)

\* The alias tuples of CODECS_ENCODINGS in the dict's order.
EncodingKeys == <<<<Lower(Lit_Encoding)>>>>

\* for encs in CODECS_ENCODINGS: if encoding.lower() in encs: combine
RECURSIVE FoldEncodingKeys(_, _, _)
FoldEncodingKeys(r, encoding, keys) ==
  IF keys = <<>> THEN r
  ELSE FoldEncodingKeys(IF InList(Lower(encoding), Head(keys))
                        THEN Then(r, CODECS_ENCODINGS[Head(keys)]) ELSE r,
                        encoding, Tail(keys))

RECURSIVE FoldEncodings(_, _)
FoldEncodings(r, encodings) ==
  IF encodings = <<>> THEN r
  ELSE FoldEncodings(FoldEncodingKeys(r, Head(encodings), EncodingKeys), Tail(encodings))

MinimumVersions(v) ==
  LET r0 == Ret(<<0, 0>>)
      r1 == IF v.printv2 THEN SetItem(r0, 1, 20) ELSE r0
      r2 == Flag(r1, v.printv3, <<20, 30>>)
      r3 == Flag(r2, v.format27, <<27, 30>>)
      r4 == Flag(r3, v.longv2, <<20, None>>)
      r5 == IF v.bytesv3 THEN SetItem(r4, 2, 30) ELSE r4
      r6 == Flag(r5, v.fstrings, <<None, 36>>)
      r7 == Flag(r6, v.bool_const, <<22, 30>>)
      r8 == Flag(r7, v.annotations, <<None, 30>>)
      r9 == Flag(r8, v.var_annotations, <<None, 36>>)
      r10 == Flag(r9, v.coroutines, <<None, 35>>)
      r11 == FoldFacts(r10, v.strftime_directives, STRFTIME_REQS)
      r12 == FoldFacts(r11, v.array_typecodes, ARRAY_TYPECODE_REQS)
      r13 == FoldFacts(r12, v.codecs_error_handlers, CODECS_ERROR_HANDLERS)
      r14 == FoldEncodings(r13, v.codecs_encodings)
      r15 == FoldFacts(r14, v.modules, MOD_REQS)
      r16 == FoldFacts(r15, v.members, MOD_MEM_REQS)
  IN FoldFacts(r16, v.kwargs, KWARGS_REQS)

\* The traversal is over; the caller asks for the unit's minimum versions.
minimum_versions ==
  /\ pc = "visit"
  /\ stack = <<>>
  /\ result' = MinimumVersions(self)
  /\ pc' = "done"
  /\ last' = NoNode
  /\ UNCHANGED <<self, stack, fuel, py, vocab, lax, visited, missed, due,
                 cv_args, cv_done, cv_out>>

Next ==
  \/ EndChildren \/ generic_visit \/ visit_Pass
  \/ visit_Import \/ visit_ImportFrom \/ visit_Name \/ visit_Print
  \/ visit_Call \/ post_Call \/ visit_Attribute \/ visit_keyword
  \/ visit_Bytes \/ visit_Constant \/ visit_JoinedStr \/ visit_NameConstant
  \/ visit_Assign \/ visit_AugAssign \/ visit_AnnAssign \/ post_AnnAssign
  \/ visit_FunctionDef \/ visit_AsyncFunctionDef \/ post_FunctionDef
  \/ visit_Await \/ visit_ClassDef
  \/ visit_If \/ visit_IfExp \/ visit_For \/ visit_While \/ visit_Try
  \/ visit_TryExcept \/ visit_BoolOp
  \/ minimum_versions

Spec == Init /\ [][Next]_vars

\* ------------------------------------------------------------------------
\* Claims about combine_versions (checked under SpecCombine)
\* ------------------------------------------------------------------------

A == cv_args[1]
B == cv_args[2]
C == cv_args[3]
ConcretePair(p) == Concrete(p[1]) /\ Concrete(p[2])

\* C1: combine is commutative: combine(a, b) and combine(b, a) have the same
\* outcome, the same returned pair or both the conflict error.
C1_Commutative ==
  {"ab", "ba"} \subseteq cv_done => cv_out["ab"] = cv_out["ba"]

C1_Witness ==
  /\ {"ab", "ba"} \subseteq cv_done
  /\ A # B
  /\ ~cv_out["ab"].raised
  /\ cv_out["ab"].mins = <<None, 36>>

\* C2: combine is associative: combine(combine(a, b), c) and
\* combine(a, combine(b, c)) have the same outcome, a raised error included.
C2_Associative ==
  {"ab_c", "a_bc"} \subseteq cv_done => cv_out["ab_c"] = cv_out["a_bc"]

\* C3: an operand requiring 2.x and excluding 3.x combined with one excluding
\* 2.x and requiring 3.x raises the conflict error in either argument order
\* and returns no pair.
C3_ConflictRaises ==
  (Concrete(A[1]) /\ A[2] = None /\ B[1] = None /\ Concrete(B[2])) =>
     /\ "ab" \in cv_done => cv_out["ab"] = InvalidVersionException
     /\ "ba" \in cv_done => cv_out["ba"] = InvalidVersionException

C3_Witness ==
  /\ A = <<20, None>>
  /\ B = <<None, 30>>
  /\ {"ab", "ba"} \subseteq cv_done
  /\ cv_out["ba"].raised

\* C4: with no conflict, the excluded marker dominates a concrete value per
\* slot and two concrete values merge to their maximum.
C4_Expected ==
  IF ConcretePair(B) THEN <<Max(A[1], B[1]), Max(A[2], B[2])>>
  ELSE IF B[1] = None /\ Concrete(B[2]) THEN <<None, Max(A[2], B[2])>>
  ELSE <<None, None>>

C4_DominanceAndMax ==
  (/\ ConcretePair(A)
   /\ \/ ConcretePair(B)
      \/ B[1] = None /\ Concrete(B[2])
      \/ B = <<None, None>>) =>
     /\ "ab" \in cv_done => cv_out["ab"] = Ret(C4_Expected)
     /\ (B = <<None, None>> /\ "ba" \in cv_done) => cv_out["ba"] = Ret(C4_Expected)

C4_Witness ==
  /\ A = <<20, 30>>
  /\ B = <<None, 36>>
  /\ "ab" \in cv_done
  /\ cv_out["ab"] = Ret(<<None, 36>>)

\* C5: (0, 0) is the identity of combine, also for pairs with an excluded
\* slot, and never raises; whenever a pair is returned, a slot that is 0 on
\* one side has the other side's value.
C5_Identity ==
  /\ (A = <<0, 0>> /\ "ab" \in cv_done) => cv_out["ab"] = Ret(B)
  /\ (A = <<0, 0>> /\ "ba" \in cv_done) => cv_out["ba"] = Ret(B)
  /\ ("ab" \in cv_done /\ ~cv_out["ab"].raised) =>
        \A i \in {1, 2} :
           /\ A[i] = 0 => cv_out["ab"].mins[i] = B[i]
           /\ B[i] = 0 => cv_out["ab"].mins[i] = A[i]

C5_Witness ==
  /\ A = <<0, 0>>
  /\ B = <<None, 30>>
  /\ {"ab", "ba"} \subseteq cv_done
  /\ cv_out["ba"] = Ret(<<None, 30>>)

\* ------------------------------------------------------------------------
\* Claims about the collector and the resolver (checked under Spec)
\* ------------------------------------------------------------------------

NoDuplicates(s) == \A i, j \in DOMAIN s : s[i] = s[j] => i = j

\* C6: no spelling in the User-Defined Symbol Set is in the Modules set or in
\* the Members set, after any sequence of collector operations: marking a
\* name retracts its observations and later additions of it are rejected.
C6_Shadowing ==
  \A u \in Range(self.user_defs) :
    u \notin Range(self.modules) /\ u \notin Range(self.members)

\* An import of "abc" and a class definition named "abc" have both been
\* visited, and a member imported from the module is still observed.
C6_Witness ==
  /\ {"Import", "ClassDef", "ImportFrom"} \subseteq visited
  /\ <<"abc">> \in Range(self.user_defs)
  /\ <<"abc">> \notin Range(self.modules)
  /\ <<"abc", "ABC">> \in Range(self.members)

\* C7: no observation set ever holds an entry twice.
C7_NoDuplicates ==
  /\ NoDuplicates(self.modules)
  /\ NoDuplicates(self.members)
  /\ NoDuplicates(self.kwargs)
  /\ NoDuplicates(self.strftime_directives)
  /\ NoDuplicates(self.array_typecodes)
  /\ NoDuplicates(self.codecs_error_handlers)
  /\ NoDuplicates(self.codecs_encodings)

\* A fact of the table that excludes the 3.x line (the 2.x line).
V2Only(vers) == vers[1] # None /\ vers[2] = None
V3Only(vers) == vers[1] = None /\ vers[2] # None

TableFacts(facts, table) == {table[x] : x \in Range(facts) \cap DOMAIN table}

MatchedPairs(v) ==
  TableFacts(v.strftime_directives, STRFTIME_REQS)
  \cup TableFacts(v.array_typecodes, ARRAY_TYPECODE_REQS)
  \cup TableFacts(v.codecs_error_handlers, CODECS_ERROR_HANDLERS)
  \cup {CODECS_ENCODINGS[k] : k \in {k \in DOMAIN CODECS_ENCODINGS :
          \E e \in Range(v.codecs_encodings) : InList(Lower(e), k)}}
  \cup TableFacts(v.modules, MOD_REQS)
  \cup TableFacts(v.members, MOD_MEM_REQS)
  \cup TableFacts(v.kwargs, KWARGS_REQS)

HasV2OnlyFact(v) ==
  v.printv2 \/ v.longv2 \/ \E vers \in MatchedPairs(v) : V2Only(vers)

HasV3OnlyFact(v) ==
  \/ v.bytesv3 \/ v.fstrings \/ v.annotations \/ v.var_annotations \/ v.coroutines
  \/ \E vers \in MatchedPairs(v) : V3Only(vers)

\* C8: a unit whose facts include a v2-only fact and a v3-only fact makes
\* minimum_versions raise the conflict error, whatever else was collected.
C8_UnitConflict ==
  (pc = "done" /\ HasV2OnlyFact(self) /\ HasV3OnlyFact(self)) =>
     result = InvalidVersionException

\* The fold the claim describes: every raised flag's pair, a vN-only flag
\* holding the excluded marker in the other slot, then every matched fact.
ClaimedFold(v) ==
  LET r1 == Flag(Ret(<<0, 0>>), v.printv2, <<20, None>>)
      r2 == Flag(r1, v.printv3, <<20, 30>>)
      r3 == Flag(r2, v.format27, <<27, 30>>)
      r4 == Flag(r3, v.longv2, <<20, None>>)
      r5 == Flag(r4, v.bytesv3, <<None, 30>>)
      r6 == Flag(r5, v.fstrings, <<None, 36>>)
      r7 == Flag(r6, v.bool_const, <<22, 30>>)
      r8 == Flag(r7, v.annotations, <<None, 30>>)
      r9 == Flag(r8, v.var_annotations, <<None, 36>>)
      r10 == Flag(r9, v.coroutines, <<None, 35>>)
      r11 == FoldFacts(r10, v.strftime_directives, STRFTIME_REQS)
      r12 == FoldFacts(r11, v.array_typecodes, ARRAY_TYPECODE_REQS)
      r13 == FoldFacts(r12, v.codecs_error_handlers, CODECS_ERROR_HANDLERS)
      r14 == FoldEncodings(r13, v.codecs_encodings)
      r15 == FoldFacts(r14, v.modules, MOD_REQS)
      r16 == FoldFacts(r15, v.members, MOD_MEM_REQS)
  IN FoldFacts(r16, v.kwargs, KWARGS_REQS)

\* C9: minimum_versions returns exactly the combine-fold, from (0, 0), of the
\* fixed pair of every raised flag and the table pair of every matched fact,
\* print-statement contributing (2.0, excluded) and byte-string literal
\* (excluded, 3.0).
C9_FoldOfFacts == pc = "done" => result = ClaimedFold(self)

\* No flag is raised and no observation is held.
NoFacts(v) ==
  /\ ~(v.printv2 \/ v.printv3 \/ v.format27 \/ v.longv2 \/ v.bytesv3 \/ v.fstrings
       \/ v.bool_const \/ v.annotations \/ v.var_annotations \/ v.coroutines)
  /\ MatchedPairs(v) = {}

\* C10: a unit whose only fact is a named (walrus) expression resolves to
\* (excluded, 3.8).
C10_NamedExpr ==
  (pc = "done" /\ "NamedExpr" \in visited /\ NoFacts(self)) =>
     result = Ret(<<None, 38>>)

\* ------------------------------------------------------------------------
\* Claims about single calls and constructs (checked under Spec)
\* ------------------------------------------------------------------------

\* A format string holds an empty replacement field: "{}" outside the
\* escapes "{{" and "}}" (Python's format string syntax).
RECURSIVE HasEmptyFieldFrom(_, _)
HasEmptyFieldFrom(s, i) ==
  IF i >= Len(s) THEN FALSE
  ELSE IF s[i] = s[i + 1] /\ s[i] \in {"{", "}"} THEN HasEmptyFieldFrom(s, i + 2)
  ELSE IF s[i] = "{" /\ s[i + 1] = "}" THEN TRUE
  ELSE HasEmptyFieldFrom(s, i + 1)

HasEmptyField(s) == HasEmptyFieldFrom(s, 1)

\* A call whose callee is dotted, ends in "format" and has a string literal
\* with an empty field as its receiver.
FormatOnEmptyField(n) ==
  /\ n.kind = "Call" /\ n.sub = "StrAttribute"
  /\ n.name[Len(n.name)] = "format"
  /\ HasEmptyField(n.s)

\* C11: the empty-field format flag is raised exactly when a visited call has
\* a dotted callee ending in "format" whose receiver is a string literal that
\* contains an empty {} field: every step raises the flag if and only if it
\* dispatches such a call, be it a statement or an argument of another call.
C11_FormatFlag ==
  [][self'.format27 <=> (self.format27 \/ FormatOnEmptyField(last'))]_vars

\* The constructs lax mode skips.
LaxKinds == {"If", "IfExp", "For", "While", "Try", "TryExcept", "BoolOp"}

\* C12: lax mode frame property.  A step that dispatches an if, conditional
\* expression, for, while, try/except or boolean-operator node changes no
\* field of the visitor; with lax mode enabled it leaves the pending work as
\* it was, so nothing inside the construct is ever visited, and with lax mode
\* disabled it leaves the construct's children to be visited next.
C12_LaxFrame ==
  [][last'.kind \in LaxKinds =>
       /\ self' = self
       /\ IF lax THEN stack' = stack
          ELSE /\ stack' = <<Head(stack')>> \o stack
               /\ Head(stack').op = "kids"]_vars

\* C12 witness: in lax mode an if statement has been dispatched after an
\* import, and the import is all that has been collected.
C12_Witness ==
  /\ lax /\ last.kind = "If"
  /\ self = [NewVisitor EXCEPT !.modules = <<<<"abc">>>>]

\* C13: every keyword argument of a call is registered against that call's
\* own callee, and against no other: once the traversal is over, the Keyword
\* Usages set holds exactly the known (function, keyword) signatures of the
\* calls that were visited, also when an argument of the call is itself a
\* call.
C13_KeywordAttribution == pc = "done" => Range(self.kwargs) = due

\* C14: every node of the syntax tree is visited during the traversal
\* (outside lax-mode skips): once the traversal is over no node has been left
\* unvisited, be it the receiver of an attribute access, the value of a
\* keyword argument or an expression embedded in a formatted-string literal.
C14_EveryNodeVisited == (pc = "done" /\ ~lax) => missed = {}

\* The definitions of functions and classes.
DefKinds == {"FunctionDef", "AsyncFunctionDef", "ClassDef"}

\* C15: definition-before-body ordering.  Right after a function or class
\* definition is dispatched its name is in the User-Defined Symbol Set, is in
\* neither the Modules nor the Members set (earlier observations of it are
\* retracted), and its whole body is still to be visited; and from then on no
\* step, a call or a reference to the name in the body or after it included,
\* takes the name out of the User-Defined Symbol Set or adds it to the
\* Modules or Members set.
C15_DefBeforeBody ==
  /\ [](last.kind \in DefKinds =>
          /\ InList(last.name, self.user_defs)
          /\ ~InList(last.name, self.modules)
          /\ ~InList(last.name, self.members)
          /\ Head(stack) = Kids("stmt"))
  /\ [][\A u \in Range(self.user_defs) :
          /\ InList(u, self'.user_defs)
          /\ ~InList(u, self'.modules)
          /\ ~InList(u, self'.members)]_vars

\* C15 witness: inside the body of the function `next`, which shadows the
\* builtin member `next`, a call of `next` has been dispatched, and the
\* Members set is empty.
C15_Witness ==
  /\ last = CallNode("Name", <<"next">>, NoLit)
  /\ \E i \in DOMAIN stack : stack[i] = Post(DefNode("FunctionDef", <<"next">>, "plain"))
  /\ self.user_defs = <<<<"next">>>>
  /\ self.members = <<>>
  /\ fuel = 0

\* Where a function definition may carry an annotation: its return type, a
\* positional parameter, a keyword-only parameter.
AnnotatedSubs == {"returns", "arg", "kwonly"}

\* C16: the annotation flag is raised by every function definition, sync or
\* async, that has a return annotation or an annotation on a parameter of
\* any kind, is not raised by a definition without annotations, and no flag
\* that is raised is ever lowered again.
C16_AnnotationFlag ==
  /\ [][(At("post") /\ Top.kind \in {"FunctionDef", "AsyncFunctionDef"}) =>
          IF Top.sub \in AnnotatedSubs THEN self'.annotations
          ELSE self'.annotations = self.annotations]_vars
  /\ [][\A f \in {"printv2", "printv3", "format27", "longv2", "bytesv3", "fstrings",
                    "bool_const", "annotations", "var_annotations", "coroutines"} :
          self[f] => self'[f]]_vars
====
